---- MODULE Spec2Model ----
(***************************************************************************)
(* The web editor of rust-flash-lso (web/src/lib.rs): a yew component      *)
(* `Model` holding the open Sol documents and one current selection, and   *)
(* its message handler `update`.  The tree-node component and the codec    *)
(* live outside lib.rs; the parts of them that the handler calls are       *)
(* modelled from the written specification and marked so in the map.       *)
(***************************************************************************)
EXTENDS Integers, Sequences, FiniteSets, TLC

(***************************************************************************)
(* Bounds.                                                                 *)
(***************************************************************************)
MaxTasks == 2        \* reader tasks ever started in one session
MaxOpen == 2         \* files picked in one "Open" dialog

(***************************************************************************)
(* Program constants: the range of i32.                                    *)
(***************************************************************************)
I32Max == 2147483647
I32Min == -I32Max - 1

(***************************************************************************)
(* Value: the tagged union of flash_lso::types::Value as lib.rs matches on *)
(* it.  Text is a sequence of one-character strings.  A Number carries its *)
(* exact decimal value in canonical form (sign, significant digits without *)
(* leading or trailing zeros, power of ten) or one of the f64 specials.    *)
(***************************************************************************)
Integer(n) == [tag |-> "Integer", int |-> n]
Number(d) == [tag |-> "Number", num |-> d]
String(s) == [tag |-> "String", str |-> s]
Bool(b) == [tag |-> "Bool", bool |-> b]
Null == [tag |-> "Null"]
Undefined == [tag |-> "Undefined"]
Unsupported == [tag |-> "Unsupported"]
XML(content, flag) == [tag |-> "XML", content |-> content, flag |-> flag]
ByteArray(bytes) == [tag |-> "ByteArray", bytes |-> bytes]
Date(epoch, tz) == [tag |-> "Date", epoch |-> epoch, tz |-> tz]
Object(props, def) == [tag |-> "Object", props |-> props, def |-> def]
StrictArray(items) == [tag |-> "StrictArray", items |-> items]
ECMAArray(dense, assoc, len) ==
    [tag |-> "ECMAArray", dense |-> dense, assoc |-> assoc, len |-> len]
VectorInt(items, fixed) == [tag |-> "VectorInt", items |-> items, fixed |-> fixed]
VectorObject(items, name, fixed) ==
    [tag |-> "VectorObject", items |-> items, name |-> name, fixed |-> fixed]
VectorUInt(items, fixed) == [tag |-> "VectorUInt", items |-> items, fixed |-> fixed]
VectorDouble(items, fixed) == [tag |-> "VectorDouble", items |-> items, fixed |-> fixed]
Dictionary(pairs, weak) == [tag |-> "Dictionary", pairs |-> pairs, weak |-> weak]
Custom(elems, dynamic, def) ==
    [tag |-> "Custom", elems |-> elems, dynamic |-> dynamic, def |-> def]

Element(name, value) == [name |-> name, value |-> value]

Dec(neg, digits, exp) == [neg |-> neg, digits |-> digits, exp |-> exp]
DecZero == Dec(FALSE, <<>>, 0)
DecInf(neg) == [special |-> "inf", neg |-> neg]
DecNaN == [special |-> "nan"]

NoDef == [tag |-> "NoDef"]
ClassDefinition(name, attributes, static_properties) ==
    [tag |-> "Def", name |-> name, attributes |-> attributes,
     static_properties |-> static_properties]

(***************************************************************************)
(* Sol: header plus ordered body of named elements.                        *)
(***************************************************************************)
Header(name, length, format_version) ==
    [name |-> name, length |-> length, format_version |-> format_version]
Sol(header, body) == [header |-> header, body |-> body]

SolData ==
    Sol(Header("data", 64, 3),
        << Element("score", Integer(10)),
           Element("flag", Bool(TRUE)),
           Element("player",
                   Object(<< Element("name", String(<<"b", "o", "b">>)),
                             Element("hp", Number(Dec(FALSE, <<1, 5>>, -1))) >>,
                          ClassDefinition("Player", {"DYNAMIC"}, <<>>))),
           Element("items",
                   StrictArray(<< Integer(1), Null,
                                  Object(<< Element("x", Integer(5)) >>, NoDef) >>)) >>)

SolPrefs ==
    Sol(Header("prefs", 40, 0),
        << Element("score", Integer(42)),
           Element("note", XML(<<"<", "a", "/", ">">>, TRUE)),
           Element("raw", ByteArray(<<1, 2>>)),
           Element("when", Date(1000, 60)),
           Element("arr",
                   ECMAArray(<< Integer(7) >>, << Element("k", Bool(FALSE)) >>, 1)),
           Element("undef", Undefined),
           Element("unsup", Unsupported),
           Element("ints", VectorInt(<<-1, 2>>, FALSE)),
           Element("uints", VectorUInt(<<3>>, TRUE)),
           Element("doubles", VectorDouble(<<Dec(FALSE, <<2, 5>>, -1)>>, FALSE)),
           Element("objs", VectorObject(<< Null >>, "T", FALSE)),
           Element("dict", Dictionary(<< <<String(<<"k">>), Integer(3)>> >>, FALSE)),
           Element("ext", Custom(<< Element("a", Integer(4)) >>, <<>>, NoDef)) >>)

(***************************************************************************)
(* Codec adapter (flash_lso): bytes are either the encoding of a Sol or    *)
(* a buffer that does not decode.  write_to_bytes on a Sol gives a buffer  *)
(* that parse_full decodes to a structurally equal Sol.                    *)
(***************************************************************************)
Garbage == [kind |-> "garbage"]
write_to_bytes(sol) == [kind |-> "lso", sol |-> sol]
DecodeError == [tag |-> "Err"]
parse_full(bytes) ==
    IF bytes.kind = "lso" THEN [tag |-> "Ok", sol |-> bytes.sol] ELSE DecodeError

FileContents == {write_to_bytes(SolData), write_to_bytes(SolPrefs), Garbage}

(***************************************************************************)
(* Path steps and the zipper: locate a value by path and rebuild the       *)
(* document around a replacement.  Index steps are 0-based.                *)
(***************************************************************************)
PropertyName(name) == [kind |-> "PropertyName", name |-> name]
Index(i) == [kind |-> "Index", index |-> i]

Names(elems) == {elems[k].name : k \in 1..Len(elems)}
Slots(seq) == {Index(k - 1) : k \in 1..Len(seq)}
Props(elems) == {PropertyName(n) : n \in Names(elems)}

\* the position of the first element called name
EntryIndex(elems, name) ==
    CHOOSE k \in 1..Len(elems) :
        /\ elems[k].name = name
        /\ \A j \in 1..(k - 1) : elems[j].name # name

\* the steps that resolve against the shape of value v
Steps(v) ==
    CASE v.tag = "Object" -> Props(v.props)
      [] v.tag = "StrictArray" -> Slots(v.items)
      [] v.tag = "VectorObject" -> Slots(v.items)
      [] v.tag = "ECMAArray" -> Slots(v.dense) \cup Props(v.assoc)
      [] OTHER -> {}

Child(v, step) ==
    CASE v.tag = "Object" -> v.props[EntryIndex(v.props, step.name)].value
      [] v.tag = "StrictArray" -> v.items[step.index + 1]
      [] v.tag = "VectorObject" -> v.items[step.index + 1]
      [] v.tag = "ECMAArray" ->
            IF step.kind = "Index" THEN v.dense[step.index + 1]
            ELSE v.assoc[EntryIndex(v.assoc, step.name)].value

\* replace the single mapping entry, keeping the other entries and the order
ReplaceEntry(elems, name, new) ==
    [k \in 1..Len(elems) |->
        IF k = EntryIndex(elems, name) THEN Element(name, new) ELSE elems[k]]

\* mutant: the 0-based index taken as a 1-based position
ReplaceSlot_OffByOne(seq, i, new) ==
    [k \in 1..Len(seq) |-> IF k = i THEN new ELSE seq[k]]

\* replace the single sequence slot, keeping length and the other slots
ReplaceSlot(seq, i, new) ==
    [k \in 1..Len(seq) |-> IF k = i + 1 THEN new ELSE seq[k]]

ReplaceChild(v, step, new) ==
    CASE v.tag = "Object" -> [v EXCEPT !.props = ReplaceEntry(v.props, step.name, new)]
      [] v.tag = "StrictArray" -> [v EXCEPT !.items = ReplaceSlot(v.items, step.index, new)]
      [] v.tag = "VectorObject" -> [v EXCEPT !.items = ReplaceSlot(v.items, step.index, new)]
      [] v.tag = "ECMAArray" ->
            IF step.kind = "Index"
            THEN [v EXCEPT !.dense = ReplaceSlot(v.dense, step.index, new)]
            ELSE [v EXCEPT !.assoc = ReplaceEntry(v.assoc, step.name, new)]

RECURSIVE ResolvesIn(_, _)
ResolvesIn(v, path) ==
    \/ path = <<>>
    \/ /\ Head(path) \in Steps(v)
       /\ ResolvesIn(Child(v, Head(path)), Tail(path))

RECURSIVE ValueIn(_, _)
ValueIn(v, path) ==
    IF path = <<>> THEN v ELSE ValueIn(Child(v, Head(path)), Tail(path))

RECURSIVE ReplaceIn(_, _, _)
ReplaceIn(v, path, new) ==
    IF path = <<>> THEN new
    ELSE ReplaceChild(v, Head(path), ReplaceIn(Child(v, Head(path)), Tail(path), new))

\* a path of length 0 is the whole document and is no edit target
Resolves(doc, path) ==
    /\ path # <<>>
    /\ Head(path) \in Props(doc.body)
    /\ ResolvesIn(doc.body[EntryIndex(doc.body, Head(path).name)].value, Tail(path))

ValueAt(doc, path) ==
    ValueIn(doc.body[EntryIndex(doc.body, Head(path).name)].value, Tail(path))

\* the commit function of a located path, applied to its replacement value
Commit(closure, newValue) ==
    LET doc == closure.snapshot
        path == closure.path
        top == Head(path).name
        old == doc.body[EntryIndex(doc.body, top)].value
    IN  [doc EXCEPT !.body = ReplaceEntry(doc.body, top, ReplaceIn(old, Tail(path), newValue))]

PathNotFound == [tag |-> "PathNotFound"]
Locate(doc, path) ==
    IF Resolves(doc, path)
    THEN [tag |-> "Located",
          value |-> ValueAt(doc, path),
          commit |-> [snapshot |-> doc, path |-> path]]
    ELSE PathNotFound

RECURSIVE PathsIn(_)
PathsIn(v) ==
    {<<>>} \cup UNION {{<<s>> \o p : p \in PathsIn(Child(v, s))} : s \in Steps(v)}

\* every path the tree view of a document offers a node for
Paths(doc) ==
    UNION {{<<PropertyName(doc.body[k].name)>> \o p : p \in PathsIn(doc.body[k].value)} :
              k \in 1..Len(doc.body)}

(***************************************************************************)
(* Parse-back of the text typed into a widget.                             *)
(***************************************************************************)
Digits == <<"0", "1", "2", "3", "4", "5", "6", "7", "8", "9">>
IsDigit(c) == \E k \in 1..Len(Digits) : Digits[k] = c
DigitVal(c) == (CHOOSE k \in 1..Len(Digits) : Digits[k] = c) - 1

ParseErr == [ok |-> FALSE]
ParseOk(data) == [ok |-> TRUE, data |-> data]

\* the digit loop of i32::from_str: checked_mul(10), then checked_add or
\* checked_sub of the digit; any other character is an InvalidDigit
RECURSIVE AccumulateI32(_, _, _)
AccumulateI32(s, acc, positive) ==
    IF s = <<>> THEN ParseOk(acc)
    ELSE IF ~IsDigit(Head(s)) THEN ParseErr
    ELSE LET d == DigitVal(Head(s)) IN
         IF positive
         THEN IF acc > I32Max \div 10 \/ acc * 10 > I32Max - d THEN ParseErr
              ELSE AccumulateI32(Tail(s), acc * 10 + d, positive)
         ELSE IF acc < -(I32Max \div 10) \/ acc * 10 < I32Min + d THEN ParseErr
              ELSE AccumulateI32(Tail(s), acc * 10 - d, positive)

\* str::parse::<i32>
ParseI32(s) ==
    IF s = <<>> THEN ParseErr
    ELSE IF Head(s) \in {"+", "-"} /\ Tail(s) = <<>> THEN ParseErr
    ELSE IF Head(s) = "+" THEN AccumulateI32(Tail(s), 0, TRUE)
    ELSE IF Head(s) = "-" THEN AccumulateI32(Tail(s), 0, FALSE)
    ELSE AccumulateI32(s, 0, TRUE)

RECURSIVE DigitPrefixLen(_)
DigitPrefixLen(s) ==
    IF s = <<>> \/ ~IsDigit(Head(s)) THEN 0 ELSE 1 + DigitPrefixLen(Tail(s))

RECURSIVE DigitsToNat(_, _)
DigitsToNat(s, acc) ==
    IF s = <<>> THEN acc ELSE DigitsToNat(Tail(s), acc * 10 + DigitVal(Head(s)))

RECURSIVE StripLeadingZeros(_)
StripLeadingZeros(ds) ==
    IF ds # <<>> /\ Head(ds) = 0 THEN StripLeadingZeros(Tail(ds)) ELSE ds

RECURSIVE TrailingZeros(_)
TrailingZeros(ds) ==
    IF ds # <<>> /\ ds[Len(ds)] = 0 THEN 1 + TrailingZeros(SubSeq(ds, 1, Len(ds) - 1)) ELSE 0

\* the decimal value of significant digits ds times ten to the e, canonical
Canonical(neg, ds, e) ==
    LET lead == StripLeadingZeros(ds)
        k == TrailingZeros(lead)
        sig == SubSeq(lead, 1, Len(lead) - k)
    IN  IF sig = <<>> THEN DecZero ELSE Dec(neg, sig, e + k)

\* the decimal grammar of f64::from_str after the sign: digits, an optional
\* point and digits, an optional exponent; at least one digit; nothing after
ParseDecimal(s, neg) ==
    LET n1 == DigitPrefixLen(s)
        r1 == SubSeq(s, n1 + 1, Len(s))
        hasDot == r1 # <<>> /\ Head(r1) = "."
        r2 == IF hasDot THEN Tail(r1) ELSE r1
        n2 == IF hasDot THEN DigitPrefixLen(r2) ELSE 0
        r3 == SubSeq(r2, n2 + 1, Len(r2))
        hasExp == r3 # <<>> /\ Head(r3) \in {"e", "E"}
        r4 == IF hasExp THEN Tail(r3) ELSE r3
        hasSign == hasExp /\ r4 # <<>> /\ Head(r4) \in {"+", "-"}
        expNeg == hasSign /\ Head(r4) = "-"
        r5 == IF hasSign THEN Tail(r4) ELSE r4
        n3 == IF hasExp THEN DigitPrefixLen(r5) ELSE 0
        r6 == SubSeq(r5, n3 + 1, Len(r5))
        e == DigitsToNat(SubSeq(r5, 1, n3), 0)
        ds == [k \in 1..(n1 + n2) |->
                  DigitVal(IF k <= n1 THEN s[k] ELSE r2[k - n1])]
    IN  IF n1 + n2 > 0 /\ (hasExp => n3 > 0) /\ r6 = <<>>
        THEN ParseOk(Canonical(neg, ds, (IF expNeg THEN -e ELSE e) - n2))
        ELSE ParseErr

\* str::parse::<f64>: sign, then a decimal, else one of the special names
ParseF64(s) ==
    IF s = <<>> THEN ParseErr
    ELSE LET neg == Head(s) = "-"
             body == IF Head(s) \in {"+", "-"} THEN Tail(s) ELSE s
             dec == ParseDecimal(body, neg)
         IN  IF dec.ok THEN dec
             ELSE IF body = <<"i", "n", "f">> THEN ParseOk(DecInf(neg))
             ELSE IF body = <<"N", "a", "N">> THEN ParseOk(DecNaN)
             ELSE ParseErr

Texts ==
    { <<>>, <<"a", "b", "c">>, <<"7">>, <<"-", "3">>, <<"+", "5">>, <<" ", "7">>,
      <<"1", ".", "5">>, <<"1", "e", "2">>, <<"N", "a", "N">>,
      <<"2", "1", "4", "7", "4", "8", "3", "6", "4", "7">>,
      <<"2", "1", "4", "7", "4", "8", "3", "6", "4", "8">> }

(***************************************************************************)
(* Messages of the component and the value/commit pair of a selection.     *)
(***************************************************************************)
None == [tag |-> "None"]
Some(x) == [tag |-> "Some", some |-> x]

EditableValue(value, callback) == [value |-> value, callback |-> callback]

Files(fs) == [type |-> "Files", files |-> fs]
Loaded(file) == [type |-> "Loaded", file |-> file]
Selection(val) == [type |-> "Selection", val |-> val]
Edited(val) == [type |-> "Edited", val |-> val]
NoMsg == [type |-> "NoMsg"]

\* events a widget can receive from the browser
Click == [kind |-> "Click"]
ChangeValue(s) == [kind |-> "Value", text |-> s]
ChangeOther == [kind |-> "Other"]
NoEvent == [kind |-> "NoEvent"]
Events == {Click, ChangeOther} \cup {ChangeValue(s) : s \in Texts}

\* mutant: a failed parse submits the type's default instead of the prior value
value_details_DefaultOnFailure(val, ev) ==
    LET v == val.value IN
    CASE v.tag = "Number" /\ ev.kind # "Click" ->
            IF ev.kind = "Value" /\ ParseF64(ev.text).ok
            THEN Edited(Number(ParseF64(ev.text).data))
            ELSE Edited(Number(DecZero))
      [] v.tag = "Integer" /\ ev.kind # "Click" ->
            IF ev.kind = "Value" /\ ParseI32(ev.text).ok
            THEN Edited(Integer(ParseI32(ev.text).data))
            ELSE Edited(Integer(0))
      [] v.tag = "String" /\ ev.kind # "Click" ->
            IF ev.kind = "Value" THEN Edited(String(ev.text)) ELSE Edited(String(v.str))
      [] v.tag = "Bool" /\ ev.kind = "Click" -> Edited(Bool(~v.bool))
      [] v.tag = "XML" /\ ev.kind # "Click" ->
            IF ev.kind = "Value" THEN Edited(XML(ev.text, v.flag))
            ELSE Edited(XML(v.content, v.flag))
      [] OTHER -> NoMsg

\* mutant: text that is no i32 but parses as f64 turns an Integer into a Number
value_details_Coerce(val, ev) ==
    LET v == val.value IN
    CASE v.tag = "Number" /\ ev.kind # "Click" ->
            IF ev.kind = "Value" /\ ParseF64(ev.text).ok
            THEN Edited(Number(ParseF64(ev.text).data))
            ELSE Edited(Number(v.num))
      [] v.tag = "Integer" /\ ev.kind # "Click" ->
            IF ev.kind = "Value" /\ ParseI32(ev.text).ok
            THEN Edited(Integer(ParseI32(ev.text).data))
            ELSE IF ev.kind = "Value" /\ ParseF64(ev.text).ok
            THEN Edited(Number(ParseF64(ev.text).data))
            ELSE Edited(Integer(v.int))
      [] v.tag = "String" /\ ev.kind # "Click" ->
            IF ev.kind = "Value" THEN Edited(String(ev.text)) ELSE Edited(String(v.str))
      [] v.tag = "Bool" /\ ev.kind = "Click" -> Edited(Bool(~v.bool))
      [] v.tag = "XML" /\ ev.kind # "Click" ->
            IF ev.kind = "Value" THEN Edited(XML(ev.text, v.flag))
            ELSE Edited(XML(v.content, v.flag))
      [] OTHER -> NoMsg

\* mutant: a Date gets a text field for its epoch
value_details_DateEditable(val, ev) ==
    LET v == val.value IN
    CASE v.tag = "Number" /\ ev.kind # "Click" ->
            IF ev.kind = "Value" /\ ParseF64(ev.text).ok
            THEN Edited(Number(ParseF64(ev.text).data))
            ELSE Edited(Number(v.num))
      [] v.tag = "Integer" /\ ev.kind # "Click" ->
            IF ev.kind = "Value" /\ ParseI32(ev.text).ok
            THEN Edited(Integer(ParseI32(ev.text).data))
            ELSE Edited(Integer(v.int))
      [] v.tag = "String" /\ ev.kind # "Click" ->
            IF ev.kind = "Value" THEN Edited(String(ev.text)) ELSE Edited(String(v.str))
      [] v.tag = "Bool" /\ ev.kind = "Click" -> Edited(Bool(~v.bool))
      [] v.tag = "XML" /\ ev.kind # "Click" ->
            IF ev.kind = "Value" THEN Edited(XML(ev.text, v.flag))
            ELSE Edited(XML(v.content, v.flag))
      [] v.tag = "Date" /\ ev.kind # "Click" ->
            IF ev.kind = "Value" /\ ParseI32(ev.text).ok
            THEN Edited(Date(ParseI32(ev.text).data, v.tz))
            ELSE Edited(Date(v.epoch, v.tz))
      [] OTHER -> NoMsg

\* mutant: an edited XML value is rebuilt with the default encoding flag
value_details_XmlFlagReset(val, ev) ==
    LET v == val.value IN
    CASE v.tag = "Number" /\ ev.kind # "Click" ->
            IF ev.kind = "Value" /\ ParseF64(ev.text).ok
            THEN Edited(Number(ParseF64(ev.text).data))
            ELSE Edited(Number(v.num))
      [] v.tag = "Integer" /\ ev.kind # "Click" ->
            IF ev.kind = "Value" /\ ParseI32(ev.text).ok
            THEN Edited(Integer(ParseI32(ev.text).data))
            ELSE Edited(Integer(v.int))
      [] v.tag = "String" /\ ev.kind # "Click" ->
            IF ev.kind = "Value" THEN Edited(String(ev.text)) ELSE Edited(String(v.str))
      [] v.tag = "Bool" /\ ev.kind = "Click" -> Edited(Bool(~v.bool))
      [] v.tag = "XML" /\ ev.kind # "Click" ->
            IF ev.kind = "Value" THEN Edited(XML(ev.text, FALSE))
            ELSE Edited(XML(v.content, v.flag))
      [] OTHER -> NoMsg

(***************************************************************************)
(* value_details: the widget rendered for the selected value, as the       *)
(* message it sends for an event (NoMsg: no listener for that event).      *)
(***************************************************************************)
value_details(val, ev) ==
    LET v == val.value IN
    CASE v.tag = "Number" /\ ev.kind # "Click" ->
            IF ev.kind = "Value" /\ ParseF64(ev.text).ok
            THEN Edited(Number(ParseF64(ev.text).data))
            ELSE Edited(Number(v.num))
      [] v.tag = "Integer" /\ ev.kind # "Click" ->
            IF ev.kind = "Value" /\ ParseI32(ev.text).ok
            THEN Edited(Integer(ParseI32(ev.text).data))
            ELSE Edited(Integer(v.int))
      [] v.tag = "String" /\ ev.kind # "Click" ->
            IF ev.kind = "Value" THEN Edited(String(ev.text)) ELSE Edited(String(v.str))
      [] v.tag = "Bool" /\ ev.kind = "Click" -> Edited(Bool(~v.bool))
      [] v.tag = "XML" /\ ev.kind # "Click" ->
            IF ev.kind = "Value" THEN Edited(XML(ev.text, v.flag))
            ELSE Edited(XML(v.content, v.flag))
      [] OTHER -> NoMsg

(***************************************************************************)
(* The component state.  committed is the document the commit function of  *)
(* the selection produced while the last message was handled (None when    *)
(* it was not called); it is not handed back to the component.  lastMsg    *)
(* and lastEvent record the message handled last and the browser event     *)
(* that produced it.  prevEdit is a history variable, kept only under      *)
(* SpecHistory: the edit that was handled right before the current         *)
(* selection was made, when it went to another path of the same document.  *)
(***************************************************************************)
VARIABLES files, tasks, current_selection, panicked, committed, lastMsg, lastEvent,
          prevEdit

vars ==
    <<files, tasks, current_selection, panicked, committed, lastMsg, lastEvent,
      prevEdit>>

\* Model::create
Init ==
    /\ files = <<>>
    /\ tasks = <<>>
    /\ current_selection = None
    /\ panicked = FALSE
    /\ committed = None
    /\ lastMsg = NoMsg
    /\ lastEvent = NoEvent
    /\ prevEdit = None

ReaderTask(file) == [file |-> file, done |-> FALSE]

\* mutant: one reader task is kept for the whole batch, that of its last file
update_Files_OneTask(msg) ==
    /\ tasks' = IF msg.files = <<>> THEN tasks
                ELSE Append(tasks, ReaderTask(msg.files[Len(msg.files)]))
    /\ committed' = None
    /\ UNCHANGED <<files, current_selection, panicked>>

\* Msg::Files: one reader task per file, pushed in order
update_Files(msg) ==
    /\ tasks' = tasks \o [k \in 1..Len(msg.files) |-> ReaderTask(msg.files[k])]
    /\ committed' = None
    /\ UNCHANGED <<files, current_selection, panicked>>

\* mutant: the decoded document is inserted at the front of the list
update_Loaded_InsertFront(msg) ==
    LET r == parse_full(msg.file.content) IN
    /\ tasks' = [tasks EXCEPT ![msg.file.task].done = TRUE]
    /\ committed' = None
    /\ IF r.tag = "Ok"
       THEN /\ files' = <<r.sol>> \o files
            /\ UNCHANGED <<current_selection, panicked>>
       ELSE /\ panicked' = TRUE
            /\ UNCHANGED <<files, current_selection>>

\* mutant: a completed load drops the current selection
update_Loaded_ClearsSelection(msg) ==
    LET r == parse_full(msg.file.content) IN
    /\ tasks' = [tasks EXCEPT ![msg.file.task].done = TRUE]
    /\ committed' = None
    /\ IF r.tag = "Ok"
       THEN /\ files' = Append(files, r.sol)
            /\ current_selection' = None
            /\ UNCHANGED panicked
       ELSE /\ panicked' = TRUE
            /\ UNCHANGED <<files, current_selection>>

\* Msg::Loaded: parse_full(..).unwrap(), then push; the reader task that
\* delivered the bytes has finished
update_Loaded(msg) ==
    LET r == parse_full(msg.file.content) IN
    /\ tasks' = [tasks EXCEPT ![msg.file.task].done = TRUE]
    /\ committed' = None
    /\ IF r.tag = "Ok"
       THEN /\ files' = Append(files, r.sol)
            /\ UNCHANGED <<current_selection, panicked>>
       ELSE /\ panicked' = TRUE
            /\ UNCHANGED <<files, current_selection>>

\* Msg::Selection
update_Selection(msg) ==
    /\ current_selection' = Some(msg.val)
    /\ committed' = None
    /\ UNCHANGED <<files, tasks, panicked>>

\* mutant: the committed document is stored at the first index, whichever
\* document the selection was made in
update_Edited_FirstFile(msg) ==
    IF current_selection = None
    THEN /\ panicked' = TRUE
         /\ committed' = None
         /\ UNCHANGED <<files, tasks, current_selection>>
    ELSE /\ committed' = Some(Commit(current_selection.some.callback, msg.val))
         /\ files' = [files EXCEPT ![1] = Commit(current_selection.some.callback, msg.val)]
         /\ UNCHANGED <<tasks, current_selection, panicked>>

\* mutant: the commit result replaces the document the selection was made
\* in, and the selection keeps the value it was made with
update_Edited_StoresDocument(msg) ==
    IF current_selection = None
    THEN /\ panicked' = TRUE
         /\ committed' = None
         /\ UNCHANGED <<files, tasks, current_selection>>
    ELSE /\ committed' = Some(Commit(current_selection.some.callback, msg.val))
         /\ files' = [files EXCEPT ![current_selection.some.callback.index] =
                                     Commit(current_selection.some.callback, msg.val)]
         /\ UNCHANGED <<tasks, current_selection, panicked>>

\* Msg::Edited: current_selection.as_ref().unwrap().callback.emit(val); the
\* callback returns nothing to the component
update_Edited(msg) ==
    IF current_selection = None
    THEN /\ panicked' = TRUE
         /\ committed' = None
         /\ UNCHANGED <<files, tasks, current_selection>>
    ELSE /\ committed' = Some(Commit(current_selection.some.callback, msg.val))
         /\ UNCHANGED <<files, tasks, current_selection, panicked>>

\* Model::update; a panic ends the processing of messages
update(msg) ==
    /\ ~panicked
    /\ lastMsg' = msg
    /\ \/ msg.type = "Files" /\ update_Files(msg)
       \/ msg.type = "Loaded" /\ update_Loaded(msg)
       \/ msg.type = "Selection" /\ update_Selection(msg)
       \/ msg.type = "Edited" /\ update_Edited(msg)

(***************************************************************************)
(* The events that reach the component.                                    *)
(***************************************************************************)
RECURSIVE SeqsUpTo(_, _)
SeqsUpTo(S, n) ==
    IF n = 0 THEN {<<>>}
    ELSE LET shorter == SeqsUpTo(S, n - 1)
         IN  shorter \cup {Append(q, x) : q \in shorter, x \in S}

\* navbar: the file input hands the picked files to the component
OpenFiles ==
    \E fs \in SeqsUpTo(FileContents, MaxOpen) :
        /\ Len(tasks) + Len(fs) <= MaxTasks
        /\ update(Files(fs))
        /\ lastEvent' = NoEvent
        /\ UNCHANGED prevEdit

\* the reader completes a pending task and delivers its bytes
ReaderDone ==
    \E t \in 1..Len(tasks) :
        /\ ~tasks[t].done
        /\ update(Loaded([task |-> t, content |-> tasks[t].file]))
        /\ lastEvent' = NoEvent
        /\ UNCHANGED prevEdit

\* the value/commit pair the tree node at path p of file i sends when clicked
TreeNode(i, p) ==
    LET loc == Locate(files[i], p)
    IN  EditableValue(loc.value, [index |-> i, path |-> p, snapshot |-> loc.commit.snapshot])

\* view_file: a click on a tree node
TreeNodeSelect ==
    \E i \in 1..Len(files) : \E p \in Paths(files[i]) :
        /\ update(Selection(TreeNode(i, p)))
        /\ lastEvent' = NoEvent
        /\ UNCHANGED prevEdit

\* view_file: the selection pane is rendered only when a selection exists
WidgetEvent ==
    \E ev \in Events :
        /\ files # <<>>
        /\ current_selection # None
        /\ value_details(current_selection.some, ev) # NoMsg
        /\ update(value_details(current_selection.some, ev))
        /\ lastEvent' = ev
        /\ UNCHANGED prevEdit

\* Model::test: the bytes offered for download for the file at index
test(index) == write_to_bytes(files[index])

SaveClick(index, bytes) == [kind |-> "Save", index |-> index, bytes |-> bytes]

\* mutant: saving moves the document out of the list
Save_TakesDocument ==
    \E i \in 1..Len(files) :
        /\ ~panicked
        /\ lastEvent' = SaveClick(i, test(i))
        /\ lastMsg' = NoMsg
        /\ committed' = None
        /\ files' = [k \in 1..(Len(files) - 1) |-> IF k < i THEN files[k] ELSE files[k + 1]]
        /\ UNCHANGED <<tasks, current_selection, panicked, prevEdit>>

\* view_file: a click on the Save link of a tab downloads the bytes that
\* test(index) serialized; no message is sent to the component
Save ==
    \E i \in 1..Len(files) :
        /\ ~panicked
        /\ lastEvent' = SaveClick(i, test(i))
        /\ lastMsg' = NoMsg
        /\ committed' = None
        /\ UNCHANGED <<files, tasks, current_selection, panicked, prevEdit>>

Next == OpenFiles \/ ReaderDone \/ TreeNodeSelect \/ WidgetEvent \/ Save

Spec == Init /\ [][Next]_vars

(***************************************************************************)
(* The handler under every message its type admits: besides the events     *)
(* above, an Edited message sent to the component directly.                *)
(***************************************************************************)
SentValues ==
    { Integer(99), Bool(FALSE), Null, String(<<"a", "b", "c">>),
      StrictArray(<< Integer(1) >>),
      Object(<< Element("x", Integer(6)), Element("y", Undefined) >>, NoDef) }

SendEdited ==
    \E v \in SentValues :
        /\ update(Edited(v))
        /\ lastEvent' = NoEvent
        /\ UNCHANGED prevEdit

NextUpdate ==
    OpenFiles \/ ReaderDone \/ TreeNodeSelect \/ WidgetEvent \/ Save \/ SendEdited

SpecUpdate == Init /\ [][NextUpdate]_vars

(***************************************************************************)
(* Selection by path: the session operation select(documentIndex, path).   *)
(* A path that resolves sends the located value/commit pair to the         *)
(* component; one that does not is rejected and sends nothing.             *)
(***************************************************************************)
SelectAttempt(index, path) == [kind |-> "Select", index |-> index, path |-> path]

\* paths that resolve against no sample document: an unknown name, an index
\* step on a primitive and on an object, an index out of range, a name step
\* on an array, no step at all
StalePaths ==
    { <<PropertyName("gone")>>,
      <<PropertyName("score"), Index(0)>>,
      <<PropertyName("player"), Index(0)>>,
      <<PropertyName("items"), Index(3)>>,
      <<PropertyName("items"), PropertyName("x")>>,
      <<>> }

\* mutant: a path that does not resolve clears the current selection
select_ClearsOnFailure(i, p) ==
    LET loc == Locate(files[i], p) IN
    /\ lastEvent' = SelectAttempt(i, p)
    /\ UNCHANGED prevEdit
    /\ IF loc.tag = "Located"
       THEN update(Selection(EditableValue(loc.value,
                [index |-> i, path |-> p, snapshot |-> loc.commit.snapshot])))
       ELSE /\ ~panicked
            /\ lastMsg' = NoMsg
            /\ committed' = None
            /\ current_selection' = None
            /\ UNCHANGED <<files, tasks, panicked>>

select(i, p) ==
    LET loc == Locate(files[i], p) IN
    /\ lastEvent' = SelectAttempt(i, p)
    /\ UNCHANGED prevEdit
    /\ IF loc.tag = "Located"
       THEN update(Selection(EditableValue(loc.value,
                [index |-> i, path |-> p, snapshot |-> loc.commit.snapshot])))
       ELSE /\ ~panicked
            /\ lastMsg' = NoMsg
            /\ committed' = None
            /\ UNCHANGED <<files, tasks, current_selection, panicked>>

SelectPath ==
    \E i \in 1..Len(files) : \E p \in Paths(files[i]) \cup StalePaths : select(i, p)

NextSelect == OpenFiles \/ ReaderDone \/ WidgetEvent \/ Save \/ SelectPath

SpecSelect == Init /\ [][NextSelect]_vars

(***************************************************************************)
(* The view's events with the history variable kept.                       *)
(***************************************************************************)
EditRecord(index, path, val) == [tag |-> "Some", index |-> index, path |-> path, val |-> val]

\* a click on a tree node, remembering the edit handled right before it when
\* that edit went to another path of the same document
TreeNodeSelectAfterEdit ==
    \E i \in 1..Len(files) : \E p \in Paths(files[i]) :
        /\ update(Selection(TreeNode(i, p)))
        /\ lastEvent' = NoEvent
        /\ prevEdit' =
              IF /\ lastMsg.type = "Edited"
                 /\ current_selection # None
                 /\ current_selection.some.callback.index = i
                 /\ current_selection.some.callback.path # p
              THEN EditRecord(current_selection.some.callback.index,
                              current_selection.some.callback.path, lastMsg.val)
              ELSE None

NextHistory == OpenFiles \/ ReaderDone \/ WidgetEvent \/ TreeNodeSelectAfterEdit

SpecHistory == Init /\ [][NextHistory]_vars

(***************************************************************************)
(* Steps of the handler, read off the message it handled.                  *)
(***************************************************************************)
\* the step handled an Edited message while a selection was set
EditStep == lastMsg'.type = "Edited" /\ current_selection # None

\* the commit closure of the current selection
Callback == current_selection.some.callback

\* C1: after an edit with value v through a selection at a path of the
\* document at index i, the bytes serialized for index i decode to a document
\* that holds v at that path and has the header the document had before.
C1_EditReachesSerializedDocument ==
    [][EditStep =>
          LET decoded == parse_full(write_to_bytes(files'[Callback.index]))
          IN  /\ decoded.tag = "Ok"
              /\ Resolves(decoded.sol, Callback.path)
              /\ ValueAt(decoded.sol, Callback.path) = lastMsg'.val
              /\ decoded.sol.header = files[Callback.index].header]_vars

\* C2: after an edit with value v2 the current selection is still set,
\* addresses the same path of the same document, and its snapshot value is v2.
C2_SelectionStableAcrossEdit ==
    [][EditStep =>
          /\ current_selection' # None
          /\ current_selection'.some.callback.index = Callback.index
          /\ current_selection'.some.callback.path = Callback.path
          /\ current_selection'.some.value = lastMsg'.val]_vars

\* C3: an Edited message handled while there is no current selection is
\* rejected: the documents and the empty selection stay as they were and the
\* component goes on handling messages.
C3_EditWithoutSelectionRejected ==
    [][lastMsg'.type = "Edited" /\ current_selection = None =>
          /\ files' = files
          /\ current_selection' = None
          /\ ~panicked']_vars

\* C4: a load whose bytes do not decode appends no document, leaves the open
\* documents and the current selection as they were, and the component goes
\* on handling messages.
C4_FailedLoadAborted ==
    [][lastMsg'.type = "Loaded" /\ parse_full(lastMsg'.file.content).tag = "Err" =>
          /\ files' = files
          /\ current_selection' = current_selection
          /\ ~panicked']_vars

\* C5: an edit applied through a selection made in the document at index i
\* leaves every document at another index j, header and values, as it was.
C5_MultiDocumentIsolation ==
    [][EditStep =>
          /\ Len(files') = Len(files)
          /\ \A j \in 1..Len(files) :
                j # Callback.index => files'[j] = files[j]]_vars

\* C5 witness: with two documents open, an edit carrying a new value has been
\* handled for a selection made in the second one.
C5_Witness ==
    /\ Len(files) >= 2
    /\ lastMsg.type = "Edited"
    /\ current_selection # None
    /\ current_selection.some.callback.index = 2
    /\ lastMsg.val # ValueAt(files[2], current_selection.some.callback.path)

(***************************************************************************)
(* What "equal except at the path" means, stated on the documents alone.   *)
(***************************************************************************)
IsPrefix(p, q) == Len(p) <= Len(q) /\ SubSeq(q, 1, Len(p)) = p
Incomparable(p, q) == ~IsPrefix(p, q) /\ ~IsPrefix(q, p)

Blank(elems) == [k \in 1..Len(elems) |-> Element(elems[k].name, Null)]
BlankSlots(seq) == [k \in 1..Len(seq) |-> Null]

\* a container without the content of its children: kind, length, names, order
Skeleton(v) ==
    CASE v.tag = "Object" -> [v EXCEPT !.props = Blank(v.props)]
      [] v.tag = "StrictArray" -> [v EXCEPT !.items = BlankSlots(v.items)]
      [] v.tag = "VectorObject" -> [v EXCEPT !.items = BlankSlots(v.items)]
      [] v.tag = "ECMAArray" ->
            [v EXCEPT !.dense = BlankSlots(v.dense), !.assoc = Blank(v.assoc)]
      [] OTHER -> v

BodyNames(doc) == [k \in 1..Len(doc.body) |-> doc.body[k].name]

IdenticalElsewhere(d, p, newVal, out) ==
    /\ out.header = d.header
    /\ BodyNames(out) = BodyNames(d)
    /\ Resolves(out, p)
    /\ ValueAt(out, p) = newVal
    /\ \A q \in Paths(d) :
          Incomparable(p, q) => Resolves(out, q) /\ ValueAt(out, q) = ValueAt(d, q)
    /\ \A k \in 1..(Len(p) - 1) :
          Skeleton(ValueAt(out, SubSeq(p, 1, k))) = Skeleton(ValueAt(d, SubSeq(p, 1, k)))

Unparseable(v, text) ==
    \/ v.tag = "Integer" /\ ~ParseI32(text).ok
    \/ v.tag = "Number" /\ ~ParseF64(text).ok

\* C7: when the text submitted for a selected Integer (Number) does not parse
\* as i32 (f64), the edit carries the prior value, the value stored at the
\* path stays what it was, and no error is raised.
C7_ParseBackSafety ==
    [][EditStep /\ lastEvent'.kind = "Value"
         /\ Unparseable(current_selection.some.value, lastEvent'.text) =>
          /\ lastMsg'.val = current_selection.some.value
          /\ ValueAt(files'[Callback.index], Callback.path)
                = ValueAt(files[Callback.index], Callback.path)
          /\ ~panicked']_vars

\* C7 witness: "abc" has been submitted for the selected Integer 42.
C7_Witness ==
    /\ lastMsg.type = "Edited"
    /\ lastEvent = ChangeValue(<<"a", "b", "c">>)
    /\ current_selection # None
    /\ current_selection.some.value = Integer(42)
    /\ ValueAt(files[current_selection.some.callback.index],
               current_selection.some.callback.path) = Integer(42)

\* C8: every edit a widget emits for the selection carries a value of the
\* variant of the selected value.
C8_EditKeepsVariant ==
    [][EditStep /\ lastEvent'.kind # "NoEvent" =>
          lastMsg'.val.tag = current_selection.some.value.tag]_vars

\* C8 witness: text that is no i32 but is an f64 has been submitted for a
\* selected Integer.
C8_Witness ==
    /\ lastMsg.type = "Edited"
    /\ lastEvent.kind = "Value"
    /\ current_selection # None
    /\ current_selection.some.value.tag = "Integer"
    /\ ~ParseI32(lastEvent.text).ok
    /\ ParseF64(lastEvent.text).ok

\* e is d or an edited copy of d: same header, same entries in the same order
EditedCopy(d, e) == e.header = d.header /\ BodyNames(e) = BodyNames(d)

\* C9: a successful load appends exactly one document at the end; no other
\* step changes the length of the list; the list never shrinks or reorders,
\* and the document at an index is only replaced by an edited copy of itself.
C9_StableIndexes ==
    [][/\ IF lastMsg'.type = "Loaded" /\ parse_full(lastMsg'.file.content).tag = "Ok"
          THEN files' = Append(files, parse_full(lastMsg'.file.content).sol)
          ELSE Len(files') = Len(files)
       /\ \A i \in 1..Len(files) : EditedCopy(files[i], files'[i])]_vars

\* C9 witness: a second, different document has been loaded after a
\* selection was made in the first.
C9_Witness ==
    /\ Len(files) = 2
    /\ lastMsg.type = "Loaded"
    /\ current_selection # None
    /\ files[1] # files[2]

\* C10: the one selection slot is none at the start, every tree-node
\* selection in any document replaces it, and once set it is never reset to
\* none by any later message.
C10_SingleSelectionSlot ==
    /\ current_selection = None
    /\ [][/\ lastMsg'.type = "Selection" => current_selection' = Some(lastMsg'.val)
          /\ current_selection # None => current_selection' # None]_vars

\* C10 witness: a selection made in the first document has been replaced by
\* one made in the second, and an edit has been handled since.
C10_Witness ==
    /\ Len(files) >= 2
    /\ current_selection # None
    /\ current_selection.some.callback.index = 2
    /\ lastMsg.type = "Edited"
    /\ lastEvent = Click

ReadOnlyTags ==
    { "ByteArray", "Object", "VectorObject", "Date", "Null", "Undefined",
      "Unsupported", "Dictionary", "StrictArray", "ECMAArray", "VectorInt",
      "VectorUInt", "VectorDouble", "Custom" }

\* C13: while the selected value is of a read-only variant the widget has no
\* listener for any event, so as long as that selection stays no Edited
\* message is handled and every open document stays as it is.
C13_ReadOnlyVariants ==
    [][current_selection # None
         /\ current_selection.some.value.tag \in ReadOnlyTags
         /\ current_selection' = current_selection =>
          /\ \A ev \in Events : value_details(current_selection.some, ev) = NoMsg
          /\ lastMsg'.type # "Edited"
          /\ \A i \in 1..Len(files) : files'[i] = files[i]]_vars

\* C13 witness: a Date is selected and a save has been made since.
C13_Witness ==
    /\ current_selection # None
    /\ current_selection.some.value.tag = "Date"
    /\ lastEvent.kind = "Save"

\* C14: an edit of a selected XML value carries the entered text verbatim as
\* content and the encoding flag of the selected value; an edit of a selected
\* String carries the entered text verbatim; neither raises an error.
C14_VerbatimText ==
    [][EditStep /\ lastEvent'.kind = "Value" =>
          /\ current_selection.some.value.tag = "XML" =>
                lastMsg'.val = XML(lastEvent'.text, current_selection.some.value.flag)
          /\ current_selection.some.value.tag = "String" =>
                lastMsg'.val = String(lastEvent'.text)
          /\ current_selection.some.value.tag \in {"XML", "String"} => ~panicked']_vars

\* C14 witness: text has been entered for a selected XML value whose flag is
\* set.
C14_Witness ==
    /\ lastMsg.type = "Edited"
    /\ lastEvent = ChangeValue(<<" ", "7">>)
    /\ current_selection # None
    /\ current_selection.some.value.tag = "XML"
    /\ current_selection.some.value.flag
    /\ lastMsg.val = XML(<<" ", "7">>, TRUE)

\* the loads that have completed with bytes that decode
Decoded(ts) == {t \in 1..Len(ts) : ts[t].done /\ parse_full(ts[t].file).tag = "Ok"}

\* C15: opening several files starts one pending load per file; each
\* completion is handled on its own: it finishes exactly its own task, a
\* successful one appends exactly its document at the end (so the tab order
\* is the completion order, and there is one document per successful
\* completion), and none changes the current selection or a document that
\* was already open.
C15_IndependentLoads ==
    [][/\ lastMsg'.type = "Files" =>
             /\ Len(tasks') = Len(tasks) + Len(lastMsg'.files)
             /\ \A t \in 1..Len(tasks) : tasks'[t] = tasks[t]
             /\ \A k \in 1..Len(lastMsg'.files) :
                   tasks'[Len(tasks) + k] = [file |-> lastMsg'.files[k], done |-> FALSE]
       /\ lastMsg'.type = "Loaded" =>
             LET r == parse_full(lastMsg'.file.content) IN
             /\ ~tasks[lastMsg'.file.task].done
             /\ tasks' = [tasks EXCEPT ![lastMsg'.file.task].done = TRUE]
             /\ r.tag = "Ok" => files' = Append(files, r.sol)
             /\ current_selection' = current_selection
             /\ \A i \in 1..Len(files) : files'[i] = files[i]
       /\ Len(files') = Cardinality(Decoded(tasks'))]_vars

\* C15 witness: two different files were opened, a selection was made, and
\* the loads completed in the reverse of the order they were started in.
C15_Witness ==
    /\ Len(tasks) = 2
    /\ tasks[1].done /\ tasks[2].done
    /\ Len(files) = 2
    /\ files[1] # files[2]
    /\ files[1] = parse_full(tasks[2].file).sol
    /\ files[2] = parse_full(tasks[1].file).sol
    /\ lastMsg.type = "Loaded"
    /\ current_selection # None

C17_NoLostUpdate ==
    (/\ prevEdit # None
     /\ lastMsg.type = "Edited"
     /\ current_selection # None
     /\ Callback.index = prevEdit.index
     /\ Callback.path # prevEdit.path)
    => /\ ValueAt(files[prevEdit.index], prevEdit.path) = prevEdit.val
       /\ ValueAt(files[Callback.index], Callback.path) = lastMsg.val

\* C18: an edit that follows another edit through the same selection is
\* computed from the value the earlier edit submitted: text that does not
\* parse resubmits that value, and a click on a Boolean submits its negation.
C18_EditsFromLatestCommitted ==
    [][EditStep /\ lastMsg.type = "Edited" =>
          /\ (lastEvent'.kind = "Value"
                /\ Unparseable(current_selection.some.value, lastEvent'.text))
             => lastMsg'.val = lastMsg.val
          /\ (lastEvent'.kind = "Click" /\ current_selection.some.value.tag = "Bool")
             => lastMsg'.val = Bool(~lastMsg.val.bool)]_vars

\* C19: whenever a selection is set, its path resolves in the document it
\* was made in and its snapshot value is the value stored there.
C19_SelectionMatchesDocument ==
    current_selection # None =>
        /\ Callback.index \in 1..Len(files)
        /\ Resolves(files[Callback.index], Callback.path)
        /\ ValueAt(files[Callback.index], Callback.path) = current_selection.some.value

\* C19 witness: an edit with a new value has been handled through a
\* selection made in the first of two documents, after the second was loaded.
C19_Witness ==
    /\ current_selection # None
    /\ Len(files) = 2
    /\ Callback.index = 1
    /\ Callback.snapshot = files[1]
    /\ lastMsg.type = "Edited"
    /\ lastMsg.val # current_selection.some.value
    /\ committed # None
    /\ committed.some # files[1]

====
